---------------------------- MODULE Spec2Model ----------------------------
(***************************************************************************)
(* Model of the WhatsApp automation script (second listing of              *)
(* src/unnamed/part_000, lines 629-1533): the work loop of main(), the     *)
(* delivery protocol send_message(), the action executor                   *)
(* safe_element_interaction(), the session handling of WhatsAppDriver and  *)
(* the checkpoint store of ContactManager.                                 *)
(*                                                                         *)
(* Strings that the code inspects (phone numbers, messages) are sequences  *)
(* of one-character strings.  Times are kept as the two differences the    *)
(* code computes: sessionAge = time.time() - session_start_time and        *)
(* refreshAge = time.time() - last_refresh_time, both in seconds.          *)
(***************************************************************************)
EXTENDS Integers, Sequences, FiniteSets, TLC

(***************************************************************************)
(* Program constants.                                                      *)
(***************************************************************************)
SESSION_RESTART_INTERVAL == 1800

refresh_interval == 1800

MAX_RETRIES == 5

RETRY_DELAY == 2

(***************************************************************************)
(* Bounds of the model.                                                    *)
(***************************************************************************)
\* seconds that pass in one Tick of the clock
TickSeconds == 1800

\* the refresh age is not counted beyond this many seconds
MaxAge == 3600

\* the session age is not counted beyond this many seconds
MaxSessionAge == 1800

\* work items in the contacts list
MaxItems == 2

\* process runs (a run after the first sees the checkpoint file of the earlier ones)
MaxRuns == 2

(***************************************************************************)
(* Strings.                                                                *)
(***************************************************************************)
Digits == {"0", "1", "2", "3", "4", "5", "6", "7", "8", "9"}

Min(a, b) == IF a < b THEN a ELSE b

\* s[i..] in 1-based indexing; empty when i > Len(s)
Drop(s, i) == IF i > Len(s) THEN << >> ELSE SubSeq(s, i, Len(s))

\* str.lstrip(c)
RECURSIVE lstrip(_, _)
lstrip(s, c) == IF s # << >> /\ Head(s) = c THEN lstrip(Tail(s), c) ELSE s

\* str.strip() of whitespace
RECURSIVE rstripSpace(_)
rstripSpace(s) ==
    IF s # << >> /\ s[Len(s)] = " " THEN rstripSpace(SubSeq(s, 1, Len(s) - 1)) ELSE s

strip(s) == rstripSpace(lstrip(s, " "))

\* 1-based position of the first c in s at or after position from; 0 when there is none
RECURSIVE find(_, _, _)
find(s, c, from) ==
    IF from > Len(s) THEN 0
    ELSE IF s[from] = c THEN from
    ELSE find(s, c, from + 1)

\* str.split(sep): the pieces between the separators, always at least one piece
RECURSIVE split(_, _)
split(s, sep) ==
    LET p == find(s, sep, 1)
    IN  IF p = 0 THEN << s >>
        ELSE << SubSeq(s, 1, p - 1) >> \o split(Drop(s, p + 1), sep)

IsKept(c) == c \in Digits \/ c = "+"

clean_phone_number(number) ==
    LET cleaned == SelectSeq(number, IsKept)
    IN  IF cleaned # << >> /\ Head(cleaned) = "+"
        THEN LET z == find(cleaned, "0", 2)
                 country_code == IF z # 0 THEN SubSeq(cleaned, 1, z - 1) ELSE cleaned
                 number_part == lstrip(Drop(cleaned, Len(country_code) + 1), "0")
             IN  country_code \o number_part
        ELSE lstrip(cleaned, "0")


(***************************************************************************)
(* Work items.  A row of the contacts table as load_contacts returns it:   *)
(* the name is the stripped text of the cell, the phone is the raw cell,   *)
(* the message is the text with its line breaks.                          *)
(***************************************************************************)
Row(p, n, m) == [phone |-> p, name |-> n, message |-> m]

ContactRows ==
    { Row(<<"+", "1">>, <<"A", "v", "a">>, <<"H">>),
      Row(<<"+", "0", "1">>, <<"A", "v", "a">>, <<"H", "\n", "B">>),
      Row(<<"+", "2">>, <<"B", "o", "b">>, <<"H">>) }

ContactLists == UNION { [1..n -> ContactRows] : n \in 1..MaxItems }

\* the key of row i: contact_mobile_number of main, phone of compare_with_excel
KeyOf(row) == clean_phone_number(row.phone)

\* a name that would keep the blank of the f-string
contact_nameUnstripped(row) == row.name \o <<" ">>

\* contact_name of main, line 1420: f"{row['First Name']} ".strip()
contact_name(row) == strip(row.name \o <<" ">>)

(***************************************************************************)
(* Dictionaries are functions on their set of keys.                        *)
(***************************************************************************)
EmptyDict == [k \in {} |-> 0]

Put(d, k, v) == [x \in (DOMAIN d) \cup {k} |-> IF x = k THEN v ELSE d[x]]

(***************************************************************************)
(* The checkpoint file progress.json: absent, holding a mapping, or        *)
(* holding text that json.load rejects.                                    *)
(***************************************************************************)
NoFile == [exists |-> FALSE, valid |-> FALSE, data |-> EmptyDict]

JsonFile(d) == [exists |-> TRUE, valid |-> TRUE, data |-> d]

BrokenFile == [exists |-> TRUE, valid |-> FALSE, data |-> EmptyDict]

Record(n, m, i) == [name |-> n, message |-> m, index |-> i]

\* files a run can find on disk before any run of this model: none, or what
\* an earlier run over an earlier contacts table has left
InitFiles ==
    { NoFile,
      JsonFile(Put(EmptyDict, <<"+", "1">>, Record(<<"A", "v", "a">>, <<"H">>, 0))),
      JsonFile(Put(EmptyDict, <<"+", "1">>, Record(<<"B", "o", "b">>, <<"H">>, 0))) }

load_progress(f) == IF f.exists /\ f.valid THEN f.data ELSE EmptyDict

\* the test of lines 874-877 and of lines 1432-1435
MatchesProgress(pd, key, name, message) ==
    /\ key \in DOMAIN pd
    /\ pd[key].name = name
    /\ pd[key].message = message

\* a comparison that would not look at the message
RECURSIVE compare_rowsByName(_, _, _)
compare_rowsByName(pd, rows, i) ==
    IF i > Len(rows) THEN [matches |-> << >>, mismatches |-> << >>]
    ELSE LET name == strip(rows[i].name)
             phone == clean_phone_number(rows[i].phone)
             rest == compare_rowsByName(pd, rows, i + 1)
         IN  IF phone \in DOMAIN pd
             THEN IF pd[phone].name = name
                  THEN [rest EXCEPT !.matches = << <<name, phone>> >> \o @]
                  ELSE [rest EXCEPT !.mismatches =
                            << <<name, phone, "Message or name changed">> >> \o @]
             ELSE [rest EXCEPT !.mismatches =
                       << <<name, phone, "Not in progress file">> >> \o @]

RECURSIVE compare_rows(_, _, _)
compare_rows(pd, rows, i) ==
    IF i > Len(rows) THEN [matches |-> << >>, mismatches |-> << >>]
    ELSE LET name == strip(rows[i].name)
             phone == clean_phone_number(rows[i].phone)
             message == rows[i].message
             rest == compare_rows(pd, rows, i + 1)
         IN  IF phone \in DOMAIN pd
             THEN IF pd[phone].name = name /\ pd[phone].message = message
                  THEN [rest EXCEPT !.matches = << <<name, phone>> >> \o @]
                  ELSE [rest EXCEPT !.mismatches =
                            << <<name, phone, "Message or name changed">> >> \o @]
             ELSE [rest EXCEPT !.mismatches =
                       << <<name, phone, "Not in progress file">> >> \o @]

compare_with_excel(pd, rows) == compare_rows(pd, rows, 1)

(***************************************************************************)
(* State.                                                                  *)
(***************************************************************************)
VARIABLES
    contacts,         \* contacts_df: the rows of the table, in order
    file,             \* progress.json on disk
    backup,           \* progress.json.bak on disk
    run,              \* number of the process run
    pc,               \* where the run is
    progress_data,    \* ContactManager.progress_data
    sent_numbers,     \* ContactManager.sent_numbers
    successful_sends, \* main: phone -> name
    failed_sends,     \* main: phone -> (name, reason)
    skipped_sends,    \* main: phone -> (name, reason)
    idx,              \* position of the for loop in contacts (1-based)
    need_restart,     \* main: "no", or why the finally block restarts the session
    driverState,      \* WhatsAppDriver.driver: "none", "open" or "closed"
    gen,              \* which browser session self.driver is (counts create_driver)
    sessionAge,       \* time.time() - session_start_time
    refreshAge,       \* time.time() - WhatsAppDriver.last_refresh_time
    step,             \* send_message: the interaction it is at
    attempt,          \* safe_element_interaction: the loop variable
    sleeps,           \* safe_element_interaction: seconds of time.sleep(RETRY_DELAY)
    seen,             \* safe_element_interaction: verdicts of this call's faults
    performed,        \* what the step just taken did, for the properties
    injections,       \* send_message: the text injections of this call so far
    issued,           \* send_message: its calls on the message box so far, in order
    marked,           \* per item: the outcome main has recorded for it in this run
    sendCalls,        \* per key: calls of send_message in this run
    submittedNow,     \* items whose message was submitted in this run
    submittedPrev,    \* items whose message was submitted in an earlier run
    mode,             \* how this run treated the prior store
    how,              \* how the work loop was left
    summary           \* the end-of-run summary, once logged

vars == << contacts, file, backup, run, pc, progress_data, sent_numbers,
           successful_sends, failed_sends, skipped_sends, idx, need_restart,
           driverState, gen, sessionAge, refreshAge, step, attempt, sleeps, seen, performed, injections,
           issued, marked,
           sendCalls, submittedNow, submittedPrev, mode, how, summary >>

diskVars == << file, backup >>

dictVars == << successful_sends, failed_sends, skipped_sends >>

clockVars == << sessionAge, refreshAge >>

callVars == << step, attempt, sleeps, seen >>

ghostVars == << marked, sendCalls, submittedNow, submittedPrev >>

NoStep == [ph |-> "none", i |-> 0, j |-> 0]

Nothing ==
    [op |-> "none", at |-> NoStep, res |-> "none", n |-> 0, sl |-> 0, seen |-> {},
     verdict |-> "none", proactive |-> FALSE,
     fault |-> [wd |-> TRUE, text |-> [phrases |-> {}, capitals |-> FALSE]],
     recovered |-> "none", checked |-> 0, acted |-> FALSE, notification |-> "none"]

NoSummary == [emitted |-> FALSE, total |-> 0, sent |-> 0, failed |-> 0, skipped |-> 0]

Keys == { KeyOf(contacts[i]) : i \in DOMAIN contacts }

\* the in-memory state of a process that has just constructed its objects
\* (lines 1324-1332): ContactManager.__init__ has loaded the checkpoint file
FreshProcess(rows, f) ==
    /\ pc = "start"
    /\ progress_data = load_progress(f)
    /\ sent_numbers = {}
    /\ successful_sends = EmptyDict
    /\ failed_sends = EmptyDict
    /\ skipped_sends = EmptyDict
    /\ idx = 0
    /\ need_restart = "no"
    /\ driverState = "none"
    /\ gen = 0
    /\ sessionAge = 0
    /\ refreshAge = 0
    /\ step = NoStep
    /\ attempt = 0
    /\ sleeps = 0
    /\ seen = {}
    /\ performed = Nothing
    /\ injections = {}
    /\ issued = << >>
    /\ marked = [i \in DOMAIN rows |-> "none"]
    /\ sendCalls = [k \in { KeyOf(rows[i]) : i \in DOMAIN rows } |-> 0]
    /\ submittedNow = {}
    /\ mode = "fresh"
    /\ how = "running"
    /\ summary = NoSummary

Init ==
    /\ contacts \in ContactLists
    /\ file \in InitFiles
    /\ backup = NoFile
    /\ run = 1
    /\ submittedPrev = {}
    /\ FreshProcess(contacts, file)

(***************************************************************************)
(* Faults.  An exception raised by an element interaction has a type,      *)
(* which decides whether the except clause of line 1085 catches it (every  *)
(* Selenium exception is a WebDriverException; an exception of the HTTP    *)
(* client under Selenium is not), and a text, which the code lower-cases   *)
(* and searches for signatures.  A text is the set of phrases it contains  *)
(* and whether it is written with capitals.                                *)
(***************************************************************************)
ExecSignatures ==
    { "failed to establish a new connection", "max retries exceeded",
      "actively refused", "invalid session id",
      "browser has closed the connection", "not connected to devtools" }

MainSignatures == { "invalid session id", "browser has closed the connection" }

Text(phrases, capitals) == [phrases |-> phrases, capitals |-> capitals]

lower(text) == [text EXCEPT !.capitals = FALSE]

\* sig in text, for a sig written in lower case
Contains(text, sig) == sig \in text.phrases /\ ~text.capitals

Fault(wd, text) == [wd |-> wd, text |-> text]

\* what an element interaction can raise: Selenium's exceptions, and the
\* exceptions of the HTTP client when the driver process does not answer
Faults ==
    { Fault(TRUE, Text({"no such element"}, FALSE)),
      Fault(TRUE, Text({"invalid session id"}, FALSE)),
      Fault(TRUE, Text({"not connected to devtools"}, TRUE)),
      Fault(FALSE, Text({"max retries exceeded", "actively refused"}, TRUE)),
      Fault(FALSE, Text({"invalid session id"}, FALSE)) }

\* raise WebDriverException("Session refresh failed"), line 1075
RefreshFailedFault == Fault(TRUE, Text({"session refresh failed"}, TRUE))

\* the test of lines 1088-1095
IsSessionError(error_str) == \E sig \in ExecSignatures : Contains(lower(error_str), sig)

\* the test of line 1469
IsMainSessionError(error_msg) == \E sig \in MainSignatures : Contains(lower(error_msg), sig)

(***************************************************************************)
(* The clock.                                                              *)
(***************************************************************************)
Later(age, cap) == Min(age + TickSeconds, cap)

\* WhatsAppDriver.check_and_refresh_session: is a refresh due
\* a check that lets the session get twice as old
RefreshDueLate(age) == age > 2 * refresh_interval

RefreshDue(age) == age > refresh_interval

\* main, line 1426
RestartDue(age) == age >= SESSION_RESTART_INTERVAL

(***************************************************************************)
(* send_message: the interactions it makes, in order.                      *)
(***************************************************************************)
Do(loc, act, arg) == [loc |-> loc, act |-> act, arg |-> arg]

\* lines 1129-1194: from clearing the search box to clearing the message box
Prelude(number) ==
    << Do("search_box", "clear", << >>),
       Do("search_box", "send_keys", <<"CTRL+a">>),
       Do("search_box", "send_keys", <<"DELETE">>),
       Do("search_box", "send_keys", number),
       Do("search_box", "send_keys", <<"ENTER">>),
       Do("search_result", "click", << >>),
       Do("search_item", "click", << >>),
       Do("message_box", "click", << >>),
       Do("message_box", "clear", << >>),
       Do("message_box", "send_keys", <<"CTRL+a">>),
       Do("message_box", "send_keys", <<"DELETE">>) >>

St(ph, i, j) == [ph |-> ph, i |-> i, j |-> j]

Lines(message) == split(message, "\n")

\* the terminal positions of send_message
ReturnTrue == St("return_true", 0, 0)

\* a send_message that reports success where it has given up
ReturnFalseAsTrue == St("return_true", 0, 0)

ReturnFalse == St("return_false", 0, 0)

\* the clipboard path, lines 1204-1246: where the loop over the lines goes
\* once line i is done, and where it starts line i
RECURSIVE LineStart(_, _)
\* a loop over the lines that breaks the line after the last line too
AfterLineAlways(lines, i) == St("newline", i, 0)

AfterLine(lines, i) ==
    IF i < Len(lines) THEN St("newline", i, 0) ELSE LineStart(lines, i + 1)

LineStart(lines, i) ==
    IF i > Len(lines) THEN St("submit", 0, 0)
    ELSE IF strip(lines[i]) # << >> THEN St("script", i, 0)
    ELSE AfterLine(lines, i)

\* the keystroke path, lines 1254-1280
RECURSIVE FbLineStart(_, _)
FbAfterLine(lines, i) ==
    IF i < Len(lines) THEN St("fb_newline", i, 0) ELSE FbLineStart(lines, i + 1)

FbLineStart(lines, i) ==
    IF i > Len(lines) THEN St("fb_submit", 0, 0)
    ELSE IF strip(lines[i]) # << >> THEN St("fb_line", i, 0)
    ELSE FbAfterLine(lines, i)

\* the interaction send_message asks of safe_element_interaction at a position
Interaction(st, number, message) ==
    LET lines == Lines(message)
    IN  CASE st.ph = "prelude" -> Prelude(number)[st.i]
          [] st.ph = "paste" -> Do("message_box", "send_keys", <<"CTRL+v">>)
          [] st.ph \in {"alt", "fb_line"} -> Do("message_box", "send_keys", lines[st.i])
          [] st.ph = "fb_char" -> Do("message_box", "send_keys", << lines[st.i][st.j] >>)
          [] st.ph \in {"newline", "fb_newline"} ->
                 Do("message_box", "send_keys", <<"SHIFT+ENTER">>)
          [] st.ph \in {"submit", "fb_submit"} ->
                 Do("message_box", "send_keys", <<"ENTER">>)

PerformSteps ==
    { "prelude", "paste", "alt", "newline", "submit",
      "fb_line", "fb_char", "fb_newline", "fb_submit" }

\* the positions inside the try of line 1202 and inside the try of line 1253
ClipboardSteps == { "script", "paste", "alt", "newline", "submit" }

KeystrokeSteps == { "fb_line", "fb_char", "fb_newline", "fb_submit" }

\* where send_message goes when safe_element_interaction has returned ok
AfterPerform(st, ok, number, message) ==
    LET lines == Lines(message)
    IN  CASE st.ph = "prelude" ->
                 IF ~ok THEN ReturnFalse
                 ELSE IF st.i < Len(Prelude(number)) THEN St("prelude", st.i + 1, 0)
                 ELSE LineStart(lines, 1)
          [] st.ph = "paste" -> IF ok THEN AfterLine(lines, st.i) ELSE St("alt", st.i, 0)
          [] st.ph = "alt" -> IF ok THEN AfterLine(lines, st.i) ELSE ReturnFalse
          [] st.ph = "newline" -> IF ok THEN LineStart(lines, st.i + 1) ELSE ReturnFalse
          [] st.ph = "submit" -> IF ok THEN ReturnTrue ELSE ReturnFalse
          [] st.ph = "fb_line" ->
                 IF ok THEN FbAfterLine(lines, st.i) ELSE St("fb_char", st.i, 1)
          [] st.ph = "fb_char" ->
                 IF st.j < Len(lines[st.i]) THEN St("fb_char", st.i, st.j + 1)
                 ELSE FbAfterLine(lines, st.i)
          [] st.ph = "fb_newline" -> IF ok THEN FbLineStart(lines, st.i + 1) ELSE ReturnFalse
          [] st.ph = "fb_submit" -> IF ok THEN ReturnTrue ELSE ReturnFalse

\* where send_message goes when an exception that is not BaseException-only
\* leaves a call it makes: out to main from the prelude, to the keystroke
\* path from the clipboard path (except of line 1248), to return False from
\* the keystroke path (except of line 1281)
AfterException(st, message) ==
    IF st.ph = "prelude" THEN St("raise", 0, 0)
    ELSE IF st.ph \in ClipboardSteps THEN FbLineStart(Lines(message), 1)
    ELSE ReturnFalse

(***************************************************************************)
(* safe_element_interaction, one pass of its loop (lines 1071-1111).       *)
(* The surroundings decide: refreshOk, whether driver.refresh() of a due   *)
(* refresh works; el, what the element interaction does; recoverOk,        *)
(* whether the refresh_session() of line 1097 works.                       *)
(***************************************************************************)
NoFault == Fault(TRUE, Text({}, FALSE))

ElementOutcomes ==
    { [raised |-> FALSE, fault |-> NoFault] } \cup
    { [raised |-> TRUE, fault |-> f] : f \in Faults }

\* a loop without a last pass
LastAttemptNever(att) == FALSE

\* a loop that gives up one pass early
LastAttemptEarly(att) == att = MAX_RETRIES - 2

\* the last pass of the loop returns False instead of going round (lines 1105, 1112)
LastAttempt(att) == att = MAX_RETRIES - 1

\* a pass that would treat a failed recovery like any other fault
AttemptResultGoesOn(att, age, refreshOk, el, recoverOk) ==
    LET due == RefreshDue(age)
        age1 == IF due /\ refreshOk THEN 0 ELSE age
        raised == (due /\ ~refreshOk) \/ el.raised
        e == IF due /\ ~refreshOk THEN RefreshFailedFault ELSE el.fault
        base == [res |-> "true", fault |-> NoFault, age |-> age1, slept |-> FALSE,
                 verdict |-> "none", proactive |-> due /\ refreshOk,
                 acted |-> ~(due /\ ~refreshOk), notification |-> "none"]
        verdict == IF IsSessionError(e.text) THEN "SessionFatal" ELSE "Transient"
    IN  IF ~raised THEN base
        ELSE IF ~e.wd THEN [base EXCEPT !.res = "raise", !.fault = e, !.verdict = "Foreign"]
        ELSE IF IsSessionError(e.text) /\ recoverOk
             THEN [base EXCEPT !.res = IF LastAttempt(att) THEN "false" ELSE "retry",
                               !.fault = e, !.age = 0, !.verdict = "SessionFatal"]
        ELSE IF LastAttempt(att)
             THEN [base EXCEPT !.res = "false", !.fault = e, !.verdict = verdict]
             ELSE [base EXCEPT !.res = "retry", !.fault = e, !.slept = TRUE,
                               !.verdict = verdict]

AttemptResult(att, age, refreshOk, el, recoverOk) ==
    LET due == RefreshDue(age)
        age1 == IF due /\ refreshOk THEN 0 ELSE age
        raised == (due /\ ~refreshOk) \/ el.raised
        e == IF due /\ ~refreshOk THEN RefreshFailedFault ELSE el.fault
        base == [res |-> "true", fault |-> NoFault, age |-> age1, slept |-> FALSE,
                 verdict |-> "none", proactive |-> due /\ refreshOk,
                 acted |-> ~(due /\ ~refreshOk), notification |-> "none"]
    IN  IF ~raised THEN base
        ELSE IF ~e.wd THEN [base EXCEPT !.res = "raise", !.fault = e, !.verdict = "Foreign"]
        ELSE IF IsSessionError(e.text)
             THEN IF recoverOk
                  THEN [base EXCEPT !.res = IF LastAttempt(att) THEN "false" ELSE "retry",
                                    !.fault = e, !.age = 0, !.verdict = "SessionFatal"]
                  ELSE [base EXCEPT !.res = "exit", !.fault = e, !.verdict = "SessionFatal",
                                    !.notification = "Critical Error"]
        ELSE IF LastAttempt(att)
             THEN [base EXCEPT !.res = "false", !.fault = e, !.verdict = "Transient",
                               !.notification = "Element Interaction Failed"]
             ELSE [base EXCEPT !.res = "retry", !.fault = e, !.slept = TRUE,
                               !.verdict = "Transient"]

(***************************************************************************)
(* main: what it does with the way send_message ends (lines 1455-1475).    *)
(***************************************************************************)
FailReason == "Failed to send message - Element interaction failed"

\* a loop that is left after the row instead of going on
NextRowBreaks ==
    /\ pc' = "finally"
    /\ idx' = idx
    /\ need_restart' = "no"

\* the run goes on with the next row of the for loop
NextRow ==
    /\ pc' = "loop"
    /\ idx' = idx + 1
    /\ need_restart' = "no"

\* send_message has come to position next; e is the exception, if one left it
Land(next, e) ==
    LET key == KeyOf(contacts[idx])
        name == contact_name(contacts[idx])
    IN  CASE next.ph = "return_true" ->
                    /\ pc' = "ret_true"
                    /\ step' = NoStep
                    /\ submittedNow' = submittedNow \cup {idx}
                    /\ UNCHANGED << idx, need_restart, failed_sends, marked, how >>
             [] next.ph = "return_false" ->
                    /\ failed_sends' = Put(failed_sends, key, <<name, FailReason>>)
                    /\ marked' = [marked EXCEPT ![idx] = "Failed"]
                    /\ step' = NoStep
                    /\ NextRow
                    /\ UNCHANGED << submittedNow, how >>
             [] next.ph = "raise" ->
                    /\ step' = NoStep
                    /\ IF IsMainSessionError(e.text)
                       THEN /\ pc' = "restart"
                            /\ need_restart' = "session_error"
                            /\ UNCHANGED << idx, failed_sends, marked >>
                       ELSE /\ failed_sends' = Put(failed_sends, key, <<name, "Error">>)
                            /\ marked' = [marked EXCEPT ![idx] = "Failed"]
                            /\ NextRow
                    /\ UNCHANGED << submittedNow, how >>
             [] next.ph = "exit" ->
                    /\ pc' = "finally"
                    /\ how' = "sysexit"
                    /\ step' = NoStep
                    /\ UNCHANGED << idx, need_restart, failed_sends, marked, submittedNow >>
             [] OTHER ->
                    /\ pc' = "send"
                    /\ step' = next
                    /\ UNCHANGED << idx, need_restart, failed_sends, marked, submittedNow,
                                    how >>

\* a refresh that would replace the browser session
SessionAfterRestart(g, refreshed) == IF refreshed THEN g + 1 ELSE g

\* refresh_session (lines 743-756) reloads the page of the session there is:
\* self.driver stays the same browser session
SessionAfterRefresh(g, refreshed) == g

\* what the surroundings can answer in one pass
RefreshChoices(age) == IF RefreshDue(age) THEN BOOLEAN ELSE {TRUE}

RecoverChoices(el) ==
    IF el.raised /\ el.fault.wd /\ IsSessionError(el.fault.text) THEN BOOLEAN ELSE {TRUE}

PassResults(att, age) ==
    { AttemptResult(att, age, refreshOk, el, recoverOk) :
        refreshOk \in RefreshChoices(age), el \in ElementOutcomes, recoverOk \in BOOLEAN }

\* a whole call of safe_element_interaction (lines 1070-1112) from pass att on:
\* every way it can end, with the refresh age it leaves and whether a pass
\* refreshed the session because the interval had passed
RECURSIVE CallResults(_, _, _)
CallResults(att, age, pro) ==
    LET os == PassResults(att, age)
        ends == { [res |-> o.res,
                   fault |-> IF o.res = "raise" THEN o.fault ELSE NoFault,
                   age |-> o.age,
                   proactive |-> pro \/ o.proactive] : o \in { x \in os : x.res # "retry" } }
        goOn == { <<o.age, pro \/ o.proactive>> : o \in { x \in os : x.res = "retry" } }
    IN  ends \cup UNION { CallResults(att + 1, g[1], g[2]) : g \in goOn }

\* the ages the clock of this model can show
Ages == { Min(k * TickSeconds, MaxAge) : k \in 0..(MaxAge \div TickSeconds + 1) }

CallTable == [age \in Ages |-> CallResults(0, age, FALSE)]

safe_element_interaction(age) == CallTable[age]

\* the calls that put a whole line into the message box
InjectionSteps == { "paste", "alt", "fb_line" }

\* send_message calls safe_element_interaction where it stands, and goes on to
\* the next call or to its end; with keep, the call is added to the trace of
\* the calls this send_message has made on the message box
PerformCall(keep) ==
    /\ pc = "send"
    /\ step.ph \in PerformSteps
    /\ \E r \in safe_element_interaction(refreshAge) :
         LET number == KeyOf(contacts[idx])
             message == contacts[idx].message
         IN  /\ refreshAge' = r.age
             /\ gen' = SessionAfterRefresh(gen, r.proactive)
             /\ performed' = [Nothing EXCEPT !.op = "perform", !.at = step,
                                             !.res = r.res, !.proactive = r.proactive]
             /\ CASE r.res = "true" ->
                        Land(AfterPerform(step, TRUE, number, message), r.fault)
                  [] r.res = "false" ->
                        Land(AfterPerform(step, FALSE, number, message), r.fault)
                  [] r.res = "raise" -> Land(AfterException(step, message), r.fault)
                  [] r.res = "exit" -> Land(St("exit", 0, 0), r.fault)
             /\ injections' = IF pc' # "send" THEN {}
                               ELSE IF step.ph \in InjectionSteps
                                       /\ r.res \in {"true", "false"}
                               THEN injections \cup { <<step.ph, step.i, r.res>> }
                               ELSE injections
             /\ issued' = IF pc' \notin {"send", "ret_true"} THEN << >>
                           ELSE IF keep /\ Interaction(step, number, message).loc
                                             = "message_box"
                           THEN Append(issued, <<step.ph, step.i, r.res>>)
                           ELSE issued
    /\ UNCHANGED << contacts, diskVars, run, progress_data, sent_numbers,
                    successful_sends, skipped_sends, driverState, sessionAge,
                    attempt, sleeps, seen, sendCalls, submittedPrev, mode, summary >>

Perform == PerformCall(FALSE)

\* self.driver.driver.execute_script(script), line 1218: it puts the line on
\* the clipboard, or raises
ExecuteScript ==
    /\ pc = "send"
    /\ step.ph = "script"
    /\ \E ok \in BOOLEAN :
         IF ok THEN Land(St("paste", step.i, 0), NoFault)
         ELSE Land(AfterException(step, contacts[idx].message), NoFault)
    /\ performed' = Nothing
    /\ UNCHANGED << injections, issued, contacts, diskVars, run, progress_data, sent_numbers,
                    successful_sends, skipped_sends, driverState, gen, clockVars,
                    attempt, sleeps, seen, sendCalls, submittedPrev, mode, summary >>

(***************************************************************************)
(* ContactManager: reset_progress and save_progress.                       *)
(***************************************************************************)
\* a reset that would clear although the copy has failed
reset_progressWithoutArchive(f, b, pd, sent, outcome) ==
    IF f.exists /\ outcome = "unlink_fails"
    THEN [file |-> f, backup |-> f, progress_data |-> pd, sent_numbers |-> sent]
    ELSE [file |-> NoFile,
          backup |-> IF f.exists /\ outcome # "copy_fails" THEN f ELSE b,
          progress_data |-> EmptyDict, sent_numbers |-> {}]

\* reset_progress (lines 886-901); outcome says which file operation raises
reset_progress(f, b, pd, sent, outcome) ==
    IF f.exists /\ outcome = "copy_fails"
    THEN [file |-> f, backup |-> b, progress_data |-> pd, sent_numbers |-> sent]
    ELSE IF f.exists /\ outcome = "unlink_fails"
    THEN [file |-> f, backup |-> f, progress_data |-> pd, sent_numbers |-> sent]
    ELSE [file |-> NoFile, backup |-> IF f.exists THEN f ELSE b,
          progress_data |-> EmptyDict, sent_numbers |-> {}]

ResetOutcomes == { "ok", "copy_fails", "unlink_fails" }

\* a save that would start from an empty store
save_progressAlone(f, pd, index, name, phone, message, outcome) ==
    LET data == Put(EmptyDict, phone, Record(name, message, index))
    IN  [progress_data |-> data,
         file |-> CASE outcome = "ok" -> JsonFile(data)
                    [] outcome = "open_fails" -> f
                    [] outcome = "dump_fails" -> BrokenFile]

\* save_progress (lines 903-915); outcome says whether open or json.dump raises
save_progress(f, pd, index, name, phone, message, outcome) ==
    LET data == Put(pd, phone, Record(name, message, index))
    IN  [progress_data |-> data,
         file |-> CASE outcome = "ok" -> JsonFile(data)
                    [] outcome = "open_fails" -> f
                    [] outcome = "dump_fails" -> BrokenFile]

WriteOutcomes == { "ok", "open_fails", "dump_fails" }

(***************************************************************************)
(* main, before the loop (lines 1334-1415).                                *)
(***************************************************************************)
\* which menu main shows: lines 1346 and 1376
Menu(pd, rows) ==
    IF compare_with_excel(pd, rows).matches # << >> THEN "continue_or_reset"
    ELSE IF pd # EmptyDict THEN "skip_or_reset"
    ELSE "none"

\* the comparison with the checkpoint and the operator's choice
StartRun ==
    /\ pc = "start"
    /\ LET menu == Menu(progress_data, contacts)
       IN  \E choice \in IF menu = "none" THEN {"none"} ELSE {"1", "2", "3"},
              outcome \in ResetOutcomes :
             CASE choice = "2" ->
                    LET r == reset_progress(file, backup, progress_data,
                                            sent_numbers, outcome)
                    IN  /\ file' = r.file
                        /\ backup' = r.backup
                        /\ progress_data' = r.progress_data
                        /\ sent_numbers' = r.sent_numbers
                        /\ mode' = "reset"
                        /\ pc' = "create"
                        /\ UNCHANGED how
               [] choice = "3" ->
                    /\ pc' = "finally"
                    /\ how' = "return"
                    /\ UNCHANGED << diskVars, progress_data, sent_numbers, mode >>
               [] choice = "1" /\ menu = "skip_or_reset" ->
                    /\ sent_numbers' = sent_numbers \cup DOMAIN progress_data
                    /\ mode' = "resume"
                    /\ pc' = "create"
                    /\ UNCHANGED << diskVars, progress_data, how >>
               [] OTHER ->
                    /\ mode' = IF choice = "1" THEN "resume" ELSE mode
                    /\ pc' = "create"
                    /\ UNCHANGED << diskVars, progress_data, sent_numbers, how >>
    /\ performed' = Nothing
    /\ UNCHANGED << injections, issued, contacts, run, dictVars, idx, need_restart, driverState, gen, clockVars,
                    callVars, ghostVars, summary >>

\* create_driver (lines 765-801): a new browser session, or an exception
create_driver(ok) ==
    IF ok THEN [raised |-> FALSE, driverState |-> "open", gen |-> gen + 1, refreshAge |-> 0]
    ELSE [raised |-> TRUE, driverState |-> driverState, gen |-> gen,
          refreshAge |-> refreshAge]

\* lines 1402-1403 and 1410-1412
CreateDriver ==
    /\ pc = "create"
    /\ \E ok \in BOOLEAN :
         LET d == create_driver(ok)
         IN  /\ driverState' = d.driverState
             /\ gen' = d.gen
             /\ refreshAge' = d.refreshAge
             /\ pc' = IF d.raised THEN "finally" ELSE "init"
             /\ how' = IF d.raised THEN "return" ELSE how
    /\ performed' = Nothing
    /\ UNCHANGED << injections, issued, contacts, diskVars, run, progress_data, sent_numbers, dictVars,
                    idx, need_restart, sessionAge, callVars, ghostVars, mode, summary >>

\* lines 1404-1409 and 1415: initialize_whatsapp, then session_start_time
InitializeWhatsapp ==
    /\ pc = "init"
    /\ \E ok \in BOOLEAN :
         IF ok
         THEN /\ pc' = "loop"
              /\ idx' = 1
              /\ need_restart' = "no"
              /\ sessionAge' = 0
              /\ UNCHANGED how
         ELSE /\ pc' = "finally"
              /\ how' = "return"
              /\ UNCHANGED << idx, need_restart, sessionAge >>
    /\ performed' = Nothing
    /\ UNCHANGED << injections, issued, contacts, diskVars, run, progress_data, sent_numbers, dictVars,
                    driverState, gen, refreshAge, callVars, ghostVars, mode, summary >>

(***************************************************************************)
(* main, the loop (lines 1418-1487).                                       *)
(***************************************************************************)
InLoop == pc = "loop" /\ idx <= Len(contacts)

\* lines 1424-1430 and 1476-1477: the interval has passed, so the try block
\* does nothing and the finally block restarts the session
RestartAtBoundary ==
    /\ InLoop
    /\ RestartDue(sessionAge)
    /\ pc' = "restart"
    /\ need_restart' = "interval"
    /\ performed' = Nothing
    /\ UNCHANGED << injections, issued, contacts, diskVars, run, progress_data, sent_numbers, dictVars,
                    idx, driverState, gen, clockVars, callVars, ghostVars, mode,
                    how, summary >>

\* lines 1432-1438
SkipProcessed ==
    /\ InLoop
    /\ ~RestartDue(sessionAge)
    /\ LET row == contacts[idx]
       IN  /\ MatchesProgress(progress_data, KeyOf(row), contact_name(row), row.message)
           /\ skipped_sends' = Put(skipped_sends, KeyOf(row),
                                   <<contact_name(row), "Already processed">>)
    /\ marked' = [marked EXCEPT ![idx] = "Skipped"]
    /\ idx' = idx + 1
    /\ need_restart' = "no"
    /\ performed' = Nothing
    /\ UNCHANGED << injections, issued, contacts, diskVars, run, pc, progress_data, sent_numbers,
                    successful_sends, failed_sends, driverState, gen, clockVars,
                    callVars, sendCalls, submittedNow, submittedPrev, mode, how,
                    summary >>

\* lines 1446-1450
SkipSent ==
    /\ InLoop
    /\ ~RestartDue(sessionAge)
    /\ LET row == contacts[idx]
       IN  /\ ~MatchesProgress(progress_data, KeyOf(row), contact_name(row), row.message)
           /\ KeyOf(row) \in sent_numbers
           /\ skipped_sends' = Put(skipped_sends, KeyOf(row),
                                   <<contact_name(row), "Message already sent previously">>)
    /\ marked' = [marked EXCEPT ![idx] = "Skipped"]
    /\ idx' = idx + 1
    /\ need_restart' = "no"
    /\ performed' = Nothing
    /\ UNCHANGED << injections, issued, contacts, diskVars, run, pc, progress_data, sent_numbers,
                    successful_sends, failed_sends, driverState, gen, clockVars,
                    callVars, sendCalls, submittedNow, submittedPrev, mode, how,
                    summary >>

\* a loop that would write the record before it calls send_message
StartSendRecording ==
    /\ InLoop
    /\ ~RestartDue(sessionAge)
    /\ LET row == contacts[idx]
           r == save_progress(file, progress_data, idx - 1, contact_name(row),
                              KeyOf(row), row.message, "ok")
       IN  /\ ~MatchesProgress(progress_data, KeyOf(row), contact_name(row), row.message)
           /\ KeyOf(row) \notin sent_numbers
           /\ sent_numbers' = sent_numbers \cup {KeyOf(row)}
           /\ sendCalls' = [sendCalls EXCEPT ![KeyOf(row)] = @ + 1]
           /\ progress_data' = r.progress_data
           /\ file' = r.file
    /\ pc' = "send"
    /\ step' = St("prelude", 1, 0)
    /\ injections' = {}
    /\ issued' = << >>
    /\ performed' = Nothing
    /\ UNCHANGED << contacts, backup, run, dictVars, idx, need_restart,
                    driverState, gen, clockVars, attempt, sleeps, seen, marked,
                    submittedNow, submittedPrev, mode, how, summary >>

\* lines 1452-1456: the key joins sent_numbers and send_message is called
StartSend ==
    /\ InLoop
    /\ ~RestartDue(sessionAge)
    /\ LET row == contacts[idx]
       IN  /\ ~MatchesProgress(progress_data, KeyOf(row), contact_name(row), row.message)
           /\ KeyOf(row) \notin sent_numbers
           /\ sent_numbers' = sent_numbers \cup {KeyOf(row)}
           /\ sendCalls' = [sendCalls EXCEPT ![KeyOf(row)] = @ + 1]
    /\ pc' = "send"
    /\ step' = St("prelude", 1, 0)
    /\ injections' = {}
    /\ issued' = << >>
    /\ performed' = Nothing
    /\ UNCHANGED << contacts, diskVars, run, progress_data, dictVars, idx, need_restart,
                    driverState, gen, clockVars, attempt, sleeps, seen, marked,
                    submittedNow, submittedPrev, mode, how, summary >>

\* lines 1457-1460, then 1475: send_message has returned True
RecordSuccess ==
    /\ pc = "ret_true"
    /\ \E outcome \in WriteOutcomes :
         LET row == contacts[idx]
             r == save_progress(file, progress_data, idx - 1, contact_name(row),
                                KeyOf(row), row.message, outcome)
         IN  /\ successful_sends' = Put(successful_sends, KeyOf(row), contact_name(row))
             /\ progress_data' = r.progress_data
             /\ file' = r.file
             /\ performed' = [Nothing EXCEPT !.op = "save_progress", !.res = outcome]
    /\ marked' = [marked EXCEPT ![idx] = "Delivered"]
    /\ NextRow
    /\ issued' = << >>
    /\ UNCHANGED << injections, contacts, backup, run, sent_numbers, failed_sends,
                    skipped_sends, driverState, gen, clockVars, callVars, sendCalls,
                    submittedNow, submittedPrev, mode, how, summary >>

\* lines 1478-1480: the finally block quits the old session and creates one
RestartCreate ==
    /\ pc = "restart"
    /\ \E ok \in BOOLEAN :
         LET d == create_driver(ok)
         IN  /\ driverState' = IF d.raised THEN "closed" ELSE d.driverState
             /\ gen' = d.gen
             /\ refreshAge' = d.refreshAge
             /\ pc' = IF d.raised THEN "finally" ELSE "reinit"
             /\ how' = IF d.raised THEN "exception" ELSE how
    /\ performed' = Nothing
    /\ UNCHANGED << injections, issued, contacts, diskVars, run, progress_data, sent_numbers, dictVars,
                    idx, need_restart, sessionAge, callVars, ghostVars, mode, summary >>

\* a loop that would go on to the next row although WhatsApp Web did not
\* come up on the new session
RestartInitializeGoesOn ==
    /\ pc = "reinit"
    /\ \E ok \in BOOLEAN :
         /\ sessionAge' = IF ok THEN 0 ELSE sessionAge
         /\ NextRow
         /\ how' = IF ok THEN how ELSE "break"
    /\ performed' = Nothing
    /\ UNCHANGED << injections, issued, contacts, diskVars, run, progress_data, sent_numbers, dictVars,
                    driverState, gen, refreshAge, callVars, ghostVars, mode, summary >>

\* lines 1481-1487
RestartInitialize ==
    /\ pc = "reinit"
    /\ \E ok \in BOOLEAN :
         IF ok
         THEN /\ sessionAge' = 0
              /\ NextRow
              /\ UNCHANGED how
         ELSE /\ pc' = "finally"
              /\ how' = "break"
              /\ UNCHANGED << idx, need_restart, sessionAge >>
    /\ performed' = Nothing
    /\ UNCHANGED << injections, issued, contacts, diskVars, run, progress_data, sent_numbers, dictVars,
                    driverState, gen, refreshAge, callVars, ghostVars, mode, summary >>

\* the for loop has no row left
LoopDone ==
    /\ pc = "loop"
    /\ idx > Len(contacts)
    /\ pc' = "finally"
    /\ how' = "completed"
    /\ performed' = Nothing
    /\ UNCHANGED << injections, issued, contacts, diskVars, run, progress_data, sent_numbers, dictVars,
                    idx, need_restart, driverState, gen, clockVars, callVars, ghostVars, mode,
                    summary >>

(***************************************************************************)
(* main, the finally block of lines 1497-1530.                             *)
(***************************************************************************)
\* a quit that would leave the browser open
quitLeavesOpen(d) == d

\* WhatsAppDriver.quit (lines 821-827)
quit(d) == IF d = "open" THEN "closed" ELSE d

Summary(total, sent, failed, skipped) ==
    [emitted |-> TRUE, total |-> total, sent |-> Cardinality(DOMAIN sent),
     failed |-> Cardinality(DOMAIN failed), skipped |-> Cardinality(DOMAIN skipped)]

Finally ==
    /\ pc = "finally"
    /\ driverState' = quit(driverState)
    /\ summary' = Summary(Len(contacts), successful_sends, failed_sends, skipped_sends)
    /\ pc' = "ended"
    /\ performed' = Nothing
    /\ UNCHANGED << injections, issued, contacts, diskVars, run, progress_data, sent_numbers, dictVars,
                    idx, need_restart, gen, clockVars, callVars, ghostVars, mode, how >>

(***************************************************************************)
(* The surroundings: the clock, the operating system, the operator.        *)
(***************************************************************************)
\* time passes while the session exists
Tick ==
    /\ pc \in {"init", "loop", "send", "ret_true", "reinit", "perform", "returned"}
    /\ sessionAge < MaxSessionAge \/ refreshAge < MaxAge
    /\ sessionAge' = Later(sessionAge, MaxSessionAge)
    /\ refreshAge' = Later(refreshAge, MaxAge)
    /\ performed' = Nothing
    /\ UNCHANGED << injections, issued, contacts, diskVars, run, pc, progress_data, sent_numbers,
                    dictVars, idx, need_restart, driverState, gen, callVars, ghostVars, mode, how,
                    summary >>

\* a process that starts: its objects are constructed (lines 1324-1332) and
\* ContactManager.__init__ has loaded the checkpoint file
Fresh ==
    /\ progress_data' = load_progress(file)
    /\ sent_numbers' = {}
    /\ successful_sends' = EmptyDict
    /\ failed_sends' = EmptyDict
    /\ skipped_sends' = EmptyDict
    /\ idx' = 0
    /\ need_restart' = "no"
    /\ driverState' = "none"
    /\ gen' = 0
    /\ sessionAge' = 0
    /\ refreshAge' = 0
    /\ step' = NoStep
    /\ attempt' = 0
    /\ sleeps' = 0
    /\ seen' = {}
    /\ performed' = Nothing
    /\ injections' = {}
    /\ issued' = << >>
    /\ marked' = [i \in DOMAIN contacts |-> "none"]
    /\ sendCalls' = [k \in Keys |-> 0]
    /\ submittedNow' = {}
    /\ mode' = "fresh"
    /\ how' = "running"
    /\ summary' = NoSummary

\* the process is killed, no finally block runs, and the operator starts the
\* program again on the same contacts table
KillAndRerun ==
    /\ pc \in {"create", "init", "loop", "send", "ret_true", "restart", "reinit",
               "finally"}
    /\ run < MaxRuns
    /\ run' = run + 1
    /\ submittedPrev' = submittedPrev \cup submittedNow
    /\ pc' = "start"
    /\ Fresh
    /\ UNCHANGED << contacts, diskVars >>

\* the run has ended and the operator starts the program again
NewRun ==
    /\ pc = "ended"
    /\ run < MaxRuns
    /\ run' = run + 1
    /\ submittedPrev' = submittedPrev \cup submittedNow
    /\ pc' = "start"
    /\ Fresh
    /\ UNCHANGED << contacts, diskVars >>

(***************************************************************************)
(* One call of safe_element_interaction, pass by pass (lines 1070-1112).   *)
(***************************************************************************)
\* a caller is about to call safe_element_interaction on an open session
InitPerform ==
    /\ contacts \in { rows \in ContactLists : Len(rows) = 1 }
    /\ file = NoFile
    /\ backup = NoFile
    /\ run = 1
    /\ submittedPrev = {}
    /\ pc = "perform"
    /\ progress_data = EmptyDict
    /\ sent_numbers = {}
    /\ successful_sends = EmptyDict
    /\ failed_sends = EmptyDict
    /\ skipped_sends = EmptyDict
    /\ idx = 1
    /\ need_restart = "no"
    /\ driverState = "open"
    /\ gen = 1
    /\ sessionAge = 0
    /\ refreshAge = 0
    /\ step = St("prelude", 1, 0)
    /\ attempt = 0
    /\ sleeps = 0
    /\ seen = {}
    /\ performed = Nothing
    /\ injections = {}
    /\ issued = << >>
    /\ marked = [i \in DOMAIN contacts |-> "none"]
    /\ sendCalls = [k \in Keys |-> 0]
    /\ submittedNow = {}
    /\ mode = "fresh"
    /\ how = "running"
    /\ summary = NoSummary

\* one pass of the for loop of line 1072
Attempt ==
    /\ pc = "perform"
    /\ \E refreshOk \in RefreshChoices(refreshAge), el \in ElementOutcomes :
         \E recoverOk \in RecoverChoices(el) :
           LET o == AttemptResult(attempt, refreshAge, refreshOk, el, recoverOk)
               sl == IF o.slept THEN sleeps + RETRY_DELAY ELSE sleeps
               vs == IF o.verdict = "none" THEN seen ELSE seen \cup {o.verdict}
           IN  /\ refreshAge' = o.age
               /\ gen' = SessionAfterRefresh(gen, o.proactive)
               /\ sleeps' = sl
               /\ seen' = vs
               /\ performed' = [op |-> "attempt", at |-> step, res |-> o.res,
                                n |-> attempt + 1, sl |-> sl, seen |-> vs,
                                verdict |-> o.verdict, proactive |-> o.proactive,
                                fault |-> o.fault,
                                recovered |-> IF o.verdict # "SessionFatal" THEN "none"
                                              ELSE IF recoverOk THEN "yes" ELSE "no",
                                checked |-> refreshAge, acted |-> o.acted,
                                notification |-> o.notification]
               /\ attempt' = IF o.res = "retry" THEN attempt + 1 ELSE attempt
               /\ pc' = CASE o.res = "retry" -> "perform"
                          [] o.res = "exit" -> "finally"
                          [] o.res = "raise" -> "raised"
                          [] OTHER -> "returned"
               /\ how' = IF o.res = "exit" THEN "sysexit" ELSE how
    /\ UNCHANGED << injections, issued, contacts, diskVars, run, progress_data, sent_numbers, dictVars,
                    idx, need_restart, driverState, sessionAge, step, ghostVars, mode,
                    summary >>

\* the caller has its answer and calls safe_element_interaction again
CallAgain ==
    /\ pc = "returned"
    /\ pc' = "perform"
    /\ attempt' = 0
    /\ sleeps' = 0
    /\ seen' = {}
    /\ performed' = Nothing
    /\ UNCHANGED << injections, issued, contacts, diskVars, run, progress_data, sent_numbers, dictVars,
                    idx, need_restart, driverState, gen, clockVars, step, ghostVars,
                    mode, how, summary >>

NextPerform ==
    \/ Attempt
    \/ CallAgain
    \/ Tick
    \/ Finally

SpecPerform == InitPerform /\ [][NextPerform]_vars

(***************************************************************************)
(* The checkpoint store on its own: a ContactManager over a contacts table *)
(* and the calls that main and a later process make on it.                 *)
(***************************************************************************)
\* rows of a table: those of ContactRows, and one whose name cell is blank
StoreRows ==
    ContactRows \cup { Row(<<"0", "3">>, << >>, <<" ">>) }

\* a ContactManager has been constructed (lines 836-847) over what is on disk
InitStore ==
    /\ contacts \in UNION { [1..n -> StoreRows] : n \in 1..MaxItems }
    /\ file \in InitFiles \cup {BrokenFile}
    /\ backup = NoFile
    /\ run = 1
    /\ submittedPrev = {}
    /\ FreshProcess(contacts, file)

\* contact_manager.save_progress(index, contact_name, contact_mobile_number,
\* contact_message) as main calls it for a row (line 1459)
SaveProgress ==
    /\ pc = "start"
    /\ \E i \in DOMAIN contacts, outcome \in WriteOutcomes :
         LET row == contacts[i]
             r == save_progress(file, progress_data, i - 1, contact_name(row),
                                KeyOf(row), row.message, outcome)
         IN  /\ progress_data' = r.progress_data
             /\ file' = r.file
             /\ performed' = [op |-> "save_progress", i |-> i, outcome |-> outcome,
                              disk |-> file, store |-> progress_data]
    /\ UNCHANGED << contacts, backup, run, pc, sent_numbers, dictVars, idx, need_restart,
                    driverState, gen, clockVars, callVars, injections, issued, ghostVars, mode,
                    how, summary >>

\* a load that would keep the store in memory when the file cannot be read
LoadProgressKeeping ==
    /\ pc = "start"
    /\ performed.op # "load_progress"
    /\ progress_data' = IF file.exists /\ file.valid THEN file.data ELSE progress_data
    /\ sent_numbers' = {}
    /\ performed' = [op |-> "load_progress", after |-> performed]
    /\ UNCHANGED << contacts, diskVars, run, pc, dictVars, idx, need_restart,
                    driverState, gen, clockVars, callVars, injections, issued, ghostVars,
                    mode, how, summary >>

\* another process constructs its ContactManager: load_progress in __init__
LoadProgress ==
    /\ pc = "start"
    /\ performed.op # "load_progress"
    /\ progress_data' = load_progress(file)
    /\ sent_numbers' = {}
    /\ performed' = [op |-> "load_progress", after |-> performed]
    /\ UNCHANGED << contacts, diskVars, run, pc, dictVars, idx, need_restart,
                    driverState, gen, clockVars, callVars, injections, issued, ghostVars, mode,
                    how, summary >>

\* a comparison that would take the records it has matched out of the store
CompareWithExcelConsuming ==
    /\ pc = "start"
    /\ LET again == performed.op = "compare_with_excel"
           result == compare_with_excel(progress_data, contacts)
           matched == { result.matches[j][2] : j \in DOMAIN result.matches }
       IN  /\ again => performed.calls = 1
           /\ progress_data' = [k \in (DOMAIN progress_data) \ matched |->
                                    progress_data[k]]
           /\ performed' = [op |-> "compare_with_excel",
                            calls |-> IF again THEN 2 ELSE 1,
                            result |-> result,
                            first |-> IF again THEN performed.first ELSE result,
                            store |-> IF again THEN performed.store ELSE progress_data,
                            disk |-> IF again THEN performed.disk ELSE file]
    /\ UNCHANGED << contacts, diskVars, run, pc, sent_numbers, dictVars,
                    idx, need_restart, driverState, gen, clockVars, callVars, injections, issued,
                    ghostVars, mode, how, summary >>

\* contact_manager.compare_with_excel(contacts_df), line 1345, called once and
\* called again
CompareWithExcel ==
    /\ pc = "start"
    /\ LET again == performed.op = "compare_with_excel"
           result == compare_with_excel(progress_data, contacts)
       IN  /\ again => performed.calls = 1
           /\ performed' = [op |-> "compare_with_excel",
                            calls |-> IF again THEN 2 ELSE 1,
                            result |-> result,
                            first |-> IF again THEN performed.first ELSE result,
                            store |-> IF again THEN performed.store ELSE progress_data,
                            disk |-> IF again THEN performed.disk ELSE file]
    /\ UNCHANGED << contacts, diskVars, run, pc, progress_data, sent_numbers, dictVars,
                    idx, need_restart, driverState, gen, clockVars, callVars, injections, issued,
                    ghostVars, mode, how, summary >>

\* contact_manager.reset_progress(), lines 1359 and 1389
ResetProgress ==
    /\ pc = "start"
    /\ \E outcome \in ResetOutcomes :
         LET r == reset_progress(file, backup, progress_data, sent_numbers, outcome)
         IN  /\ file' = r.file
             /\ backup' = r.backup
             /\ progress_data' = r.progress_data
             /\ sent_numbers' = r.sent_numbers
             /\ performed' = [op |-> "reset_progress", outcome |-> outcome,
                              disk |-> file, archive |-> backup,
                              store |-> progress_data]
    /\ UNCHANGED << contacts, run, pc, dictVars, idx, need_restart, driverState, gen,
                    clockVars, callVars, injections, issued, ghostVars, mode, how, summary >>

NextStore ==
    \/ SaveProgress
    \/ LoadProgress
    \/ CompareWithExcel
    \/ ResetProgress

SpecStore == InitStore /\ [][NextStore]_vars

Next ==
    \/ StartRun
    \/ CreateDriver
    \/ InitializeWhatsapp
    \/ RestartAtBoundary
    \/ SkipProcessed
    \/ SkipSent
    \/ StartSend
    \/ Perform
    \/ ExecuteScript
    \/ RecordSuccess
    \/ RestartCreate
    \/ RestartInitialize
    \/ LoopDone
    \/ Finally
    \/ Tick

\* one run of the program
Spec == Init /\ [][Next]_vars

\* runs of the program one after the other on the same contacts table, each
\* finding the checkpoint file as the one before has left it
NextRerun ==
    \/ Next
    \/ KillAndRerun
    \/ NewRun

InitRerun == Init /\ file = NoFile

SpecRerun == InitRerun /\ [][NextRerun]_vars

(***************************************************************************)
(* clean_phone_number on its own: main calls it on the phone cell of a row *)
(* (line 1422).  The cells are the texts of up to MaxPhoneLen characters   *)
(* over a plus sign, a zero, another digit and a space, one number written *)
(* with the international 00 prefix, and three with zeros after the first  *)
(* digits.                                                                 *)
(***************************************************************************)
MaxPhoneLen == 3

PhoneChars == { "+", "0", "2", " " }

PhoneCells ==
    UNION { [1..n -> PhoneChars] : n \in 1..MaxPhoneLen }
    \cup { <<"0", "0", "2", "0", " ", "1", "0", "0", " ", "1", "2", "3", "4">>,
           <<"+", "2", "0", "2", "0">>,
           <<"+", "2", "2", "0", "2">>,
           <<"+", "2", "2", "0", "0", "2">> }

InitClean ==
    /\ contacts \in [1..1 -> { Row(p, << >>, << >>) : p \in PhoneCells }]
    /\ file = NoFile
    /\ backup = NoFile
    /\ run = 1
    /\ submittedPrev = {}
    /\ FreshProcess(contacts, file)

\* contact_mobile_number = contact_manager.clean_phone_number(...), line 1422
CleanPhoneNumber ==
    /\ pc = "start"
    /\ performed.op # "clean_phone_number"
    /\ performed' = [op |-> "clean_phone_number",
                     number |-> contacts[1].phone,
                     result |-> clean_phone_number(contacts[1].phone)]
    /\ UNCHANGED << contacts, diskVars, run, pc, progress_data, sent_numbers, dictVars,
                    idx, need_restart, driverState, gen, clockVars, callVars, injections,
                    issued, ghostVars, mode, how, summary >>

NextClean == CleanPhoneNumber

SpecClean == InitClean /\ [][NextClean]_vars

(***************************************************************************)
(* One delivery: a run over a table of one row, in which the calls that    *)
(* send_message makes on the message box are kept in order.  The rows are  *)
(* those of ContactRows and one whose message has an empty line between    *)
(* two lines of text.                                                      *)
(***************************************************************************)
SendRows ==
    ContactRows \cup { Row(<<"+", "3">>, <<"C", "y">>, <<"H", "\n", "\n", "B">>) }

InitSend ==
    /\ contacts \in [1..1 -> SendRows]
    /\ file \in InitFiles
    /\ backup = NoFile
    /\ run = 1
    /\ submittedPrev = {}
    /\ FreshProcess(contacts, file)

PerformLogged == PerformCall(TRUE)

NextSend ==
    \/ StartRun
    \/ CreateDriver
    \/ InitializeWhatsapp
    \/ RestartAtBoundary
    \/ SkipProcessed
    \/ SkipSent
    \/ StartSend
    \/ PerformLogged
    \/ ExecuteScript
    \/ RecordSuccess
    \/ RestartCreate
    \/ RestartInitialize
    \/ LoopDone
    \/ Finally
    \/ Tick

SpecSend == InitSend /\ [][NextSend]_vars

(***************************************************************************)
(* Properties of the work loop, the session and the interaction executor.  *)
(***************************************************************************)
\* the rows the for loop has left behind
Passed(i) == i \in DOMAIN contacts /\ i < idx

\* send_message was called for row j in this run
Sent(j) == marked[j] \in {"Delivered", "Failed"}

\* C1: in one run send_message is called at most once per normalized key, and
\* every later row whose key an earlier row of this run was sent for is marked
\* Skipped (and so has no delivery action)
C1_OncePerKeyAndLaterSkipped ==
    /\ \A k \in Keys : sendCalls[k] <= 1
    /\ \A i \in DOMAIN contacts :
         (Passed(i) /\ \E j \in 1..(i - 1) :
                          Sent(j) /\ KeyOf(contacts[j]) = KeyOf(contacts[i]))
            => marked[i] = "Skipped"

\* C2: a run that keeps the prior store (it was not reset) submits no message
\* that an earlier, interrupted or ended, run on the same list has submitted
C2_NoRedeliveryAfterInterruption ==
    (run > 1 /\ mode # "reset") => submittedNow \cap submittedPrev = {}

\* every row has a checkpoint record with its name and its message
AllRecorded ==
    \A i \in DOMAIN contacts :
        MatchesProgress(progress_data, KeyOf(contacts[i]), contact_name(contacts[i]),
                        contacts[i].message)

\* C3: in a resumed run on a list of rows that all have a checkpoint record
\* with the same name and message, every row the loop has passed is marked
\* Skipped, nothing is sent, and the summary of the completed run says
\* Delivered 0, Failed 0, Skipped = number of rows
C3_ResumeSkipsRecordedRows ==
    (mode = "resume" /\ AllRecorded) =>
        /\ \A i \in DOMAIN contacts : Passed(i) => marked[i] = "Skipped"
        /\ \A k \in Keys : sendCalls[k] = 0
        /\ (how = "completed" /\ summary.emitted) =>
              /\ summary.sent = 0
              /\ summary.failed = 0
              /\ summary.skipped = Len(contacts)

\* C4: when the loop has run to completion, every row has been classified as
\* Delivered, Skipped or Failed
C4_EveryRowClassified ==
    how = "completed" =>
        \A i \in DOMAIN contacts : marked[i] \in {"Delivered", "Skipped", "Failed"}

\* C5: when the restart interval has passed at the start of a row's iteration
\* and the session has been restarted, the age is zero and the loop is still
\* at that same row, which it then processes on the new session
C5_RestartThenSameRow ==
    [][(pc = "reinit" /\ need_restart = "interval" /\ pc' = "loop")
          => (sessionAge' = 0 /\ idx' = idx)]_vars

\* C6 as stated: no call of safe_element_interaction after the first one of a
\* send_message call refreshes the session because the interval has passed
C6_NoRefreshInsideDelivery ==
    ~(performed.op = "perform" /\ performed.proactive
        /\ performed.at # St("prelude", 1, 0))

\* C6: while send_message is running the browser session is neither quit nor
\* replaced: restarts happen between rows only (a refresh because of the
\* interval keeps the session and can happen inside a delivery)
C6_RestartsBetweenRowsOnly ==
    [][pc = "send" => (gen' = gen /\ driverState' = driverState)]_vars

\* a later call of a delivery has refreshed the session, which is still the
\* same one, and the delivery goes on
C6_Witness ==
    /\ pc = "send"
    /\ performed.op = "perform"
    /\ performed.proactive
    /\ performed.at.ph \in ClipboardSteps \cup KeystrokeSteps
    /\ gen = 1

C9_FailedRestartStops ==
    how \in {"break", "exception"} =>
        /\ pc \in {"finally", "ended"}
        /\ \A j \in DOMAIN contacts : j >= idx => marked[j] = "none"

\* WhatsApp Web did not come up after a restart at the first of two rows
C9_Witness ==
    /\ how = "break"
    /\ pc = "ended"
    /\ idx = 1
    /\ Len(contacts) = 2
    /\ \A k \in Keys : sendCalls[k] = 0

\* C10: in a call of safe_element_interaction in which every pass so far has
\* raised a Transient fault, each pass before the last is followed by one
\* sleep of RETRY_DELAY and another pass, and pass MAX_RETRIES makes the call
\* return False without a further sleep and without ending the process
C10_TransientExhaustion ==
    (performed.op = "attempt" /\ performed.seen = {"Transient"}
        /\ performed.verdict = "Transient") =>
        /\ performed.n <= MAX_RETRIES
        /\ how = "running"
        /\ IF performed.n = MAX_RETRIES
           THEN /\ performed.res = "false"
                /\ pc = "returned"
                /\ performed.sl = (MAX_RETRIES - 1) * RETRY_DELAY
           ELSE /\ performed.res = "retry"
                /\ pc = "perform"
                /\ performed.sl = performed.n * RETRY_DELAY

\* a call has returned False after MAX_RETRIES passes that all raised a
\* Transient fault
C10_Witness ==
    /\ pc = "returned"
    /\ performed.res = "false"
    /\ performed.seen = {"Transient"}
    /\ performed.n = MAX_RETRIES

\* the passes of the call that have raised a Transient fault: each of them
\* but a last one is followed by one sleep of RETRY_DELAY
TransientPasses ==
    performed.sl \div RETRY_DELAY
        + (IF performed.res = "false" /\ performed.verdict = "Transient" THEN 1 ELSE 0)

\* C11: a call of safe_element_interaction returns False only when
\* MAX_RETRIES of its passes have raised a Transient fault, however many
\* SessionFatal faults it has recovered from
C11_RecoveryKeepsRetryBudget ==
    (performed.op = "attempt" /\ performed.res = "false") =>
        TransientPasses = MAX_RETRIES

\* C12: when a pass raises a SessionFatal fault and refresh_session fails,
\* the process exits: the call neither returns nor makes another pass, and
\* only the finally block of main is left to run
C12_UnrecoveredSessionFatalExits ==
    /\ (performed.op = "attempt" /\ performed.recovered = "no") =>
          /\ performed.res = "exit"
          /\ pc = "finally"
          /\ how = "sysexit"
    /\ how = "sysexit" => pc \in {"finally", "ended"}

\* the second pass of a call has raised a SessionFatal fault, the recovery
\* has failed and the process is on its way out
C12_Witness ==
    /\ performed.op = "attempt"
    /\ performed.recovered = "no"
    /\ IsSessionError(performed.fault.text)
    /\ performed.n = 2
    /\ pc = "finally"

\* C13: every fault an element interaction raises is handled as SessionFatal
\* when its text contains one of the signatures, whatever the capitals, and
\* as Transient (retried or given up with False, never fatal) otherwise
C13_ClassificationBySignature ==
    (performed.op = "attempt" /\ performed.fault # NoFault) =>
        IF IsSessionError(performed.fault.text)
        THEN performed.verdict = "SessionFatal"
        ELSE /\ performed.verdict = "Transient"
             /\ performed.res \in {"retry", "false"}

Count(seq, x) == Cardinality({ j \in DOMAIN seq : seq[j] = x })

\* what the store says about row i: its record has the name and the message
\* of the row, or it has others, or there is none
Reconciled(i) ==
    LET row == contacts[i]
    IN  IF MatchesProgress(progress_data, KeyOf(row), strip(row.name), row.message)
        THEN "match"
        ELSE IF KeyOf(row) \in DOMAIN progress_data THEN "Message or name changed"
        ELSE "Not in progress file"

\* the rows with the name and key of row i about which the store says what
RowsLike(i, what) ==
    { j \in DOMAIN contacts :
        /\ strip(contacts[j].name) = strip(contacts[i].name)
        /\ KeyOf(contacts[j]) = KeyOf(contacts[i])
        /\ Reconciled(j) = what }

\* C16: compare_with_excel puts every row into exactly one of matches and
\* mismatches: into matches exactly when the store has a record for its key
\* with its name and message, into mismatches with "Message or name changed"
\* exactly when it has another record for the key, and with "Not in progress
\* file" exactly when it has none
C16_ReconcilePartitions ==
    performed.op = "compare_with_excel" =>
        LET r == performed.result
        IN  /\ Len(r.matches) + Len(r.mismatches) = Len(contacts)
            /\ \A i \in DOMAIN contacts :
                 LET n == strip(contacts[i].name)
                     k == KeyOf(contacts[i])
                 IN  /\ Count(r.matches, <<n, k>>)
                           = Cardinality(RowsLike(i, "match"))
                     /\ \A what \in {"Message or name changed", "Not in progress file"} :
                           Count(r.mismatches, <<n, k, what>>)
                               = Cardinality(RowsLike(i, what))

\* two rows with the same name and key of which the store has recorded one
C16_Witness ==
    /\ performed.op = "compare_with_excel"
    /\ Len(contacts) = 2
    /\ KeyOf(contacts[1]) = KeyOf(contacts[2])
    /\ Len(performed.result.matches) = 1
    /\ Len(performed.result.mismatches) = 1
    /\ performed.result.mismatches[1][3] = "Message or name changed"

\* C17: whatever happens to the write of save_progress, every record that
\* load_progress returned before it is still returned after it (under the
\* key just saved, the new record may have taken its place)
C17_WriteKeepsEarlierRecords ==
    performed.op = "save_progress" =>
        \A k \in DOMAIN load_progress(performed.disk) :
            /\ k \in DOMAIN load_progress(file)
            /\ k # KeyOf(contacts[performed.i]) =>
                  load_progress(file)[k] = load_progress(performed.disk)[k]

\* C18: when reset_progress on an existing checkpoint file has removed the
\* file or cleared the store in memory, the archive is a copy of that file
C18_ResetArchivesFirst ==
    (performed.op = "reset_progress" /\ performed.disk.exists) =>
        ((~file.exists \/ progress_data # performed.store) => backup = performed.disk)

\* a reset has removed a file with records, cleared the store and left the
\* archive
C18_Witness ==
    /\ performed.op = "reset_progress"
    /\ performed.disk.exists
    /\ performed.store # EmptyDict
    /\ ~file.exists
    /\ progress_data = EmptyDict
    /\ backup = performed.disk

\* C19: a step of a run adds or changes a record of the store, or writes the
\* checkpoint file, only when send_message has just returned True for the
\* row of that key, and it is the step that marks the row Delivered
C19_RecordOnlyAfterDelivery ==
    [][/\ \A k \in DOMAIN progress_data' :
             (k \notin DOMAIN progress_data \/ progress_data'[k] # progress_data[k])
                => /\ pc = "ret_true"
                   /\ k = KeyOf(contacts[idx])
                   /\ idx \in submittedNow
                   /\ marked'[idx] = "Delivered"
       /\ (file' # file /\ file'.exists)
             => (pc = "ret_true" /\ marked'[idx] = "Delivered")]_vars

\* the first row was delivered and has its record, the second one has
\* failed and has none
C19_Witness ==
    /\ Len(contacts) = 2
    /\ marked = <<"Delivered", "Failed">>
    /\ KeyOf(contacts[1]) \in DOMAIN progress_data
    /\ KeyOf(contacts[2]) \notin DOMAIN progress_data
    /\ file.exists

\* C20: when send_message is about to inject a character of a line whose
\* paste has failed, a full-line injection of that line has been attempted
\* in this call and none has succeeded
C20_FullLineBeforeCharacters ==
    (pc = "send" /\ step.ph = "fb_char"
        /\ <<"paste", step.i, "false">> \in injections) =>
        /\ \E ph \in {"alt", "fb_line"}, res \in {"true", "false"} :
              <<ph, step.i, res>> \in injections
        /\ \A ph \in {"alt", "fb_line"} : <<ph, step.i, "true">> \notin injections

(***************************************************************************)
(* Properties of one delivery.                                             *)
(***************************************************************************)
\* C21: when the paste of a line and then the injection of the whole line
\* have both failed, send_message goes on to inject that line character by
\* character, and does not end with False on account of that line
C21_CharactersAfterBothFail ==
    (performed.op = "perform" /\ performed.at.ph = "alt" /\ performed.res = "false")
        => /\ pc = "send"
           /\ step.ph = "fb_char"
           /\ step.i = performed.at.i

\* the calls whose failure ends the delivery: clear, select-all and delete
\* on the message box, a line break, the submit
Required(ph, i) ==
    \/ ph = "prelude" /\ i \in 9..11
    \/ ph \in {"newline", "fb_newline", "submit", "fb_submit"}

\* C22: send_message returns True only when the three clearing calls, the
\* line break after every line but the last and the last submit have each
\* returned True; when one of these calls returns False, send_message ends
\* with False at once, so that no submit follows the failure
C22_TrueOnlyIfRequiredSucceeded ==
    /\ pc = "ret_true" =>
          LET lines == Lines(contacts[idx].message)
              last == issued[Len(issued)]
              brk == IF last[1] = "submit" THEN "newline" ELSE "fb_newline"
          IN  /\ issued # << >>
              /\ last[1] \in {"submit", "fb_submit"}
              /\ last[3] = "true"
              /\ \A i \in 9..11 :
                    \E p \in DOMAIN issued : issued[p] = <<"prelude", i, "true">>
              /\ \A i \in 1..(Len(lines) - 1) :
                    \E p \in DOMAIN issued : issued[p] = <<brk, i, "true">>
    /\ \A p \in DOMAIN issued :
          ~(Required(issued[p][1], issued[p][2]) /\ issued[p][3] = "false")
    /\ (performed.op = "perform" /\ performed.res = "false"
           /\ Required(performed.at.ph, performed.at.i)) =>
          /\ pc = "loop"
          /\ marked[idx - 1] = "Failed"

\* the line break after the first line of a message of two lines has
\* failed, and the row is marked Failed
C22_Witness ==
    /\ performed.op = "perform"
    /\ performed.at.ph = "newline"
    /\ performed.res = "false"
    /\ pc = "loop"
    /\ marked[idx - 1] = "Failed"

\* the calls on the message box that a message asks for, from line i on
RECURSIVE ExpectedFrom(_, _)
ExpectedFrom(lines, i) ==
    IF i > Len(lines) THEN << <<"submit", 0, "true">> >>
    ELSE (IF strip(lines[i]) # << >> THEN << <<"paste", i, "true">> >> ELSE << >>)
         \o (IF i < Len(lines) THEN << <<"newline", i, "true">> >> ELSE << >>)
         \o ExpectedFrom(lines, i + 1)

Expected(message) ==
    << <<"prelude", 8, "true">>, <<"prelude", 9, "true">>,
       <<"prelude", 10, "true">>, <<"prelude", 11, "true">> >>
    \o ExpectedFrom(Lines(message), 1)

\* every call of this delivery has succeeded on the clipboard path
AllSucceeded ==
    \A p \in DOMAIN issued :
        issued[p][3] = "true" /\ issued[p][1] \notin KeystrokeSteps

\* C23: when every call succeeds, the calls send_message makes on the
\* message box for a message of n lines are, in order, the clearing calls,
\* for each line one paste (none for an empty line) and one line break unless
\* the line is the last, and one submit, with n-1 line breaks in all; then
\* the row is marked Delivered and its record is written to the file
C23_OrderOfDelivery ==
    /\ (pc = "ret_true" /\ AllSucceeded) =>
          /\ issued = Expected(contacts[idx].message)
          /\ Cardinality({ p \in DOMAIN issued : issued[p][1] = "newline" })
                = Len(Lines(contacts[idx].message)) - 1
          /\ Cardinality({ p \in DOMAIN issued : issued[p][1] = "submit" }) = 1
    /\ performed.op = "save_progress" =>
          LET row == contacts[idx - 1]
          IN  /\ marked[idx - 1] = "Delivered"
              /\ performed.res = "ok" =>
                    MatchesProgress(load_progress(file), KeyOf(row),
                                    contact_name(row), row.message)

\* a message of three lines, the second one empty, has been delivered with
\* two pastes and two line breaks
C23_Witness ==
    /\ pc = "ret_true"
    /\ AllSucceeded
    /\ Len(Lines(contacts[idx].message)) = 3
    /\ Len(issued) = 9

(***************************************************************************)
(* Properties of the normalization of phone numbers.                       *)
(***************************************************************************)
\* C24: clean_phone_number maps the text 0020 100 1234 to +201001234
C24_DoubleZeroPrefix ==
    (performed.op = "clean_phone_number"
        /\ performed.number
             = <<"0", "0", "2", "0", " ", "1", "0", "0", " ", "1", "2", "3", "4">>)
        => performed.result = <<"+", "2", "0", "1", "0", "0", "1", "2", "3", "4">>

(***************************************************************************)
(* Properties of the skips, the notifications and the refresh.             *)
(***************************************************************************)
\* the row the loop has just left was skipped as already sent
SkippedAsSent(i) ==
    /\ i = idx - 1
    /\ i \in DOMAIN contacts
    /\ marked[i] = "Skipped"
    /\ KeyOf(contacts[i]) \in DOMAIN skipped_sends
    /\ skipped_sends[KeyOf(contacts[i])][2] = "Message already sent previously"

\* C25: a row is skipped with the reason 'already sent' only when an earlier
\* row of this run with the same key has been marked Delivered; a key whose
\* earlier delivery has failed, or that was never delivered in this run, is
\* not skipped with that reason
C25_SkippedOnlyAfterDelivered ==
    \A i \in DOMAIN contacts :
        SkippedAsSent(i) =>
            \E j \in 1..(i - 1) :
                /\ KeyOf(contacts[j]) = KeyOf(contacts[i])
                /\ marked[j] = "Delivered"

\* C26: a call of safe_element_interaction that ends by returning False or by
\* ending the process has shown an error notification, and a recovery of the
\* session inside the call shows a notification
C26_FailureAndRecoveryNotified ==
    performed.op = "attempt" =>
        /\ performed.res \in {"false", "exit"} => performed.notification # "none"
        /\ performed.recovered = "yes" => performed.notification # "none"

\* C27: a pass checks the age of the session before it looks for the element:
\* when the age then exceeds the interval the session is refreshed first, or
\* the pass does not act on the element; the element is acted upon only on
\* a session whose age since its last refresh does not exceed the interval
C27_RefreshBeforeAction ==
    performed.op = "attempt" =>
        /\ performed.checked > refresh_interval =>
              IF performed.acted THEN performed.proactive
              ELSE performed.fault = RefreshFailedFault
        /\ performed.acted =>
              (IF performed.proactive THEN 0 ELSE performed.checked) <= refresh_interval

\* a pass has found the session older than the interval, has refreshed it and
\* has then acted on the element with success
C27_Witness ==
    /\ performed.op = "attempt"
    /\ performed.checked > refresh_interval
    /\ performed.proactive
    /\ performed.acted
    /\ performed.res = "true"

\* C28: when the refresh of a session found too old at the start of a pass
\* fails, the call ends the process: there is no further pass
C28_FailedRefreshStops ==
    (performed.op = "attempt" /\ ~performed.acted
        /\ performed.fault = RefreshFailedFault)
        => /\ performed.res = "exit"
           /\ pc = "finally"

(***************************************************************************)
(* Properties of a resumed run and of the loading of the checkpoint file.  *)
(***************************************************************************)
\* the loop stands at a row whose key has a record with another name or
\* another message, in a resumed run that has handled no row with that key
MismatchedRow ==
    /\ InLoop
    /\ mode = "resume"
    /\ LET row == contacts[idx]
       IN  /\ KeyOf(row) \in DOMAIN progress_data
           /\ ~MatchesProgress(progress_data, KeyOf(row), contact_name(row), row.message)
           /\ \A j \in 1..(idx - 1) : KeyOf(contacts[j]) # KeyOf(row)

\* C29: in a resumed run, whichever menu the operator has answered, the loop
\* leaves a row whose key has a record with another name or message, and
\* whose key no earlier row of this run had, by calling send_message for it
C29_MismatchIsDelivered ==
    [][(MismatchedRow /\ (pc' # pc \/ idx' # idx))
          => (pc' = "send" /\ idx' = idx)]_vars

\* C30: when the file is missing or cannot be read as JSON, load_progress
\* returns the empty store; the comparison then reports every row as a
\* mismatch that is not in the progress file, and no row passes the test by
\* which the loop skips a recorded row
C30_UnreadableFileIsEmptyStore ==
    (performed.op = "load_progress" /\ ~(file.exists /\ file.valid)) =>
        LET result == compare_with_excel(progress_data, contacts)
        IN  /\ progress_data = EmptyDict
            /\ result.matches = << >>
            /\ Len(result.mismatches) = Len(contacts)
            /\ \A j \in DOMAIN result.mismatches :
                  result.mismatches[j][3] = "Not in progress file"
            /\ \A i \in DOMAIN contacts :
                  ~MatchesProgress(progress_data, KeyOf(contacts[i]),
                                   contact_name(contacts[i]), contacts[i].message)

\* a write has broken the file while the store in memory had a record, and
\* the next process has loaded the empty store from it
C30_Witness ==
    /\ performed.op = "load_progress"
    /\ file.exists
    /\ ~file.valid
    /\ performed.after.op = "save_progress"
    /\ progress_data = EmptyDict

(***************************************************************************)
(* Properties of the store operations, the call and the summary.           *)
(***************************************************************************)
\* C31: save_progress for the key k of a row sets the entry of k in the
\* store to the name, the message and the index of that row, in place of the
\* entry k had; the entries of the other keys are as before, and the store
\* has no key but those it had and k
C31_SaveSetsOneEntry ==
    performed.op = "save_progress" =>
        LET row == contacts[performed.i]
            k == KeyOf(row)
        IN  /\ DOMAIN progress_data = DOMAIN performed.store \cup {k}
            /\ progress_data[k] = Record(contact_name(row), row.message, performed.i - 1)
            /\ \A other \in DOMAIN performed.store :
                  other # k => progress_data[other] = performed.store[other]

\* a save has replaced the record of its key while the store held the
\* record of another key
C31_Witness ==
    /\ performed.op = "save_progress"
    /\ KeyOf(contacts[performed.i]) \in DOMAIN performed.store
    /\ performed.store[KeyOf(contacts[performed.i])]
          # progress_data[KeyOf(contacts[performed.i])]
    /\ \E other \in DOMAIN performed.store : other # KeyOf(contacts[performed.i])

\* C32: in a run in which the operator has chosen the reset, once
\* reset_progress has returned the store in memory and sent_numbers are
\* empty and the checkpoint file is gone, and no row of the run is skipped
\* unless an earlier row of this run with its key has been sent
C32_ResetClears ==
    /\ (mode = "reset" /\ pc = "create") =>
          /\ progress_data = EmptyDict
          /\ sent_numbers = {}
          /\ ~file.exists
    /\ mode = "reset" =>
          \A i \in DOMAIN contacts :
              marked[i] = "Skipped" =>
                  \E j \in 1..(i - 1) :
                      KeyOf(contacts[j]) = KeyOf(contacts[i]) /\ Sent(j)

\* C33: a call of safe_element_interaction whose passes raise Transient and
\* SessionFatal faults only, with recoveries that work or fail, makes at
\* most MAX_RETRIES passes; a pass either is followed by another one, and is
\* then not pass MAX_RETRIES, or ends the call, which has then returned
\* True, returned False or ended the process
C33_CallEnds ==
    /\ pc = "perform" => attempt < MAX_RETRIES
    /\ (performed.op = "attempt" /\ "Foreign" \notin performed.seen) =>
          /\ performed.n <= MAX_RETRIES
          /\ IF performed.res = "retry"
             THEN pc = "perform" /\ performed.n < MAX_RETRIES
             ELSE /\ performed.res \in {"true", "false", "exit"}
                  /\ pc = (IF performed.res = "exit" THEN "finally" ELSE "returned")

\* pass MAX_RETRIES of a call that has seen Transient faults and recovered
\* SessionFatal faults has made the call return False
C33_Witness ==
    /\ performed.op = "attempt"
    /\ performed.n = MAX_RETRIES
    /\ performed.seen = {"Transient", "SessionFatal"}
    /\ performed.res = "false"
    /\ pc = "returned"

\* C34: when the loop has gone through every row, the counts of sent, failed
\* and skipped rows in the summary add up to the number of rows of the table
C34_CountsAddUp ==
    (pc = "ended" /\ how = "completed") =>
        summary.sent + summary.failed + summary.skipped = Len(contacts)

(***************************************************************************)
(* Properties of the text and the submit of one delivery.                  *)
(***************************************************************************)
\* the calls of this delivery that have put the text of line i into the
\* message box: a paste or a whole-line injection that returned True, or a
\* character injection that returned True
TextCalls(i) ==
    { p \in DOMAIN issued :
        /\ issued[p][1] \in InjectionSteps \cup {"fb_char"}
        /\ issued[p][2] = i
        /\ issued[p][3] = "true" }

\* C35: when send_message returns True, the text of every non-empty line of
\* the message has been put into the message box exactly once, and the lines
\* have been put there in their order, also when the delivery has gone from
\* the clipboard path to the keystroke path part-way through the lines
C35_EachLineOnce ==
    pc = "ret_true" =>
        LET lines == Lines(contacts[idx].message)
        IN  /\ \A i \in DOMAIN lines :
                  strip(lines[i]) # << >> => Cardinality(TextCalls(i)) = 1
            /\ \A i, j \in DOMAIN lines :
                  \A p \in TextCalls(i), q \in TextCalls(j) : p < q => i <= j

\* the submit calls of this delivery
Submits == { p \in DOMAIN issued : issued[p][1] \in {"submit", "fb_submit"} }

\* C36: a delivery calls the submit on the message box at most once; it
\* returns True exactly when that call has returned True, so that a row
\* marked Failed has had no submit that returned True
C36_SubmitOnce ==
    /\ Cardinality(Submits) <= 1
    /\ pc = "ret_true" <=> (\E p \in Submits : issued[p][3] = "true")
    /\ (performed.op = "perform" /\ performed.at.ph \in {"submit", "fb_submit"}
           /\ performed.res = "true") => pc = "ret_true"

(***************************************************************************)
(* Properties of the normalization as a function.                          *)
(***************************************************************************)
\* C37: clean_phone_number applied to a key it has returned returns that key
C37_CleanIdempotent ==
    performed.op = "clean_phone_number" =>
        clean_phone_number(performed.result) = performed.result

IsDigit(c) == c \in Digits

\* the digits of a text, in order
DigitsOf(number) == SelectSeq(number, IsDigit)

\* C38: two texts that begin with a plus sign and differ in their digits
\* have different keys
C38_DistinctKeys ==
    (performed.op = "clean_phone_number" /\ Head(performed.number) = "+") =>
        \A other \in PhoneCells :
            (Head(other) = "+" /\ DigitsOf(other) # DigitsOf(performed.number))
                => clean_phone_number(other) # performed.result

=============================================================================
